---- MODULE Spec2Model ----
(***************************************************************************)
(* Administrator authentication of Rate-my-services (Baymax IT Care):      *)
(* the login route with per-account lockout (login_attempts ledger, SQLite *)
(* auth-database), the constant-time credential verifier, the login rate   *)
(* limiter, and the session lifecycle (requireAuth, /logout, /me).          *)
(*                                                                         *)
(* Time is in milliseconds, as Date.now() gives it; the clock starts five   *)
(* minutes before the first UTC midnight of the model's epoch so that both  *)
(* sides of a date change are visited.  Requests are handled one at a time. *)
(* express-session is modelled by what it does to the store and the cookie: *)
(* a request loads the session its cookie names, a modified session is      *)
(* written back when the response ends, regenerate destroys the presented   *)
(* session and allocates a fresh identifier.  A store error is an input of  *)
(* a handler exactly where the handler's code inspects the error.  The      *)
(* store's own expiry, a day after a session's last request, never comes    *)
(* before the idle timeout and is left out.                                 *)
(***************************************************************************)
EXTENDS Integers, Sequences, FiniteSets, Bags, TLC

VARIABLES now, admin_users, login_attempts, sessions, cookie, nextSid, hits, resp,
          issuedAt, succeeded, logouts, db, boot, pending

\* now .. hits are the program's state and the browser's cookie.  The rest is
\* history, read by the properties only: resp is the last response, issuedAt the
\* time each session identifier was issued, succeeded the usernames whose last
\* recorded login attempt succeeded, logouts the logout calls made on
\* authenticated sessions, each as <<identifier presented, status answered>>
\* db is what the database file holds of the sessions table and its indexes,
\* boot how the module's initialisation ended; pending is the login calls
\* suspended at the await of the credential check, after their lock check
vars == <<now, admin_users, login_attempts, sessions, cookie, nextSid, hits, resp,
          issuedAt, succeeded, logouts, db, boot, pending>>

(* ------------------------------ bounds -------------------------------- *)

\* rows the ledger may hold when a login call starts
MaxLedger == 5
\* session identifiers ever issued
MaxSid == 2
\* five-minute steps of the clock in Spec
MaxSteps == 2
\* thirty-minute steps of the clock in SessionSpec
MaxHalfHours == 3
\* thirty-minute steps of the clock in AgeSpec: a day and an hour
MaxAgeHalfHours == 50
\* rows of the sessions table in the database file a start finds
MaxSessionRows == 2
\* five-minute steps of the clock in LockSpec: past the end of a lock
MaxLockSteps == 4
\* login calls suspended at the credential check at one time
MaxPending == 3
\* rows the ledger may come to hold in RaceSpec, counting the calls in flight
MaxRaceLedger == 6

(* ------------------------- program constants --------------------------- *)

MAX_FAILED_ATTEMPTS == 5
LOCKOUT_DURATION_MS == 15 * 60 * 1000
SESSION_IDLE_TIMEOUT_MS == 30 * 60 * 1000
SESSION_MAX_AGE_MS == 24 * 60 * 60 * 1000
RETENTION_MS == 24 * 60 * 60 * 1000
LimiterWindowMs == 15 * 60 * 1000
LimiterMax == 5

DAY_MS == 24 * 60 * 60 * 1000
StepMs == 5 * 60 * 1000
HalfHourMs == 30 * 60 * 1000
T0 == DAY_MS - StepMs

NoSid == 0

(* ------------------------------ inputs --------------------------------- *)

DummyPassword == "dummy_password_that_will_never_match"
Usernames == {"admin", "Admin", ""}
Passwords == {"baymax", "wrong", DummyPassword, ""}
Ips == {"10.0.0.1"}
\* what the clients of Spec type: the administrator's name with the right password,
\* a wrong one and none
Credentials == {<<"admin", "baymax">>, <<"admin", "wrong">>, <<"admin", "">>}

(* --------------------------- credential store -------------------------- *)

\* bcrypt.hash / bcrypt.compare: a digest matches exactly the password it was made of
bcryptHash(password) == <<"$2b$12$", password>>

bcryptCompare(password, hash) == hash = bcryptHash(password)

DUMMY_HASH == bcryptHash(DummyPassword)

\* the provisioned table: one administrator (scripts/seed-admin.js), never logged in
SeededAdmins ==
  { [id |-> 1, username |-> "admin", password_hash |-> bcryptHash("baymax"),
     display_name |-> "Administrator", last_login |-> <<>>] }

\* variant: the lookup folds case (a NOCASE column)
findAdminByUsernameNoCase(users, username) ==
  LET Lower(name) == IF name = "Admin" THEN "admin" ELSE name
  IN  { a \in users : Lower(a.username) = Lower(username) }

\* SELECT * FROM admin_users WHERE username = ?   (TEXT, BINARY collation)
findAdminByUsername(users, username) == { a \in users : a.username = username }

\* variant: an id without a row resolves to a row without columns
findAdminByIdUnchecked(users, id) ==
  IF { a \in users : a.id = id } = {}
  THEN { [id |-> id, username |-> "", password_hash |-> <<>>,
          display_name |-> "", last_login |-> <<>>] }
  ELSE { a \in users : a.id = id }

findAdminById(users, id) == { a \in users : a.id = id }

(* ------------------------- timestamps as text --------------------------- *)

\* A timestamp text is <<date, separator, time of day>>: the ten characters of the
\* date, the character after them, and the rest, each fixed-width and zero-padded,
\* so that comparing the fields in order is the byte-wise comparison of the texts.

\* SQLite CURRENT_TIMESTAMP: "YYYY-MM-DD HH:MM:SS" in UTC
CURRENT_TIMESTAMP(t) == <<t \div DAY_MS, " ", (t % DAY_MS) \div 1000>>

\* Date.prototype.toISOString: "YYYY-MM-DDTHH:MM:SS.sssZ"
toISOString(t) == <<t \div DAY_MS, "T", t % DAY_MS>>

CharCode(c) == IF c = " " THEN 32 ELSE 84

\* a < b for two texts, as SQLite compares TEXT values (memcmp)
TextLess(a, b) ==
  \/ a[1] < b[1]
  \/ /\ a[1] = b[1]
     /\ \/ CharCode(a[2]) < CharCode(b[2])
        \/ a[2] = b[2] /\ a[3] < b[3]

\* new Date(text).getTime(), the server's zone being UTC
DateParse(text) ==
  text[1] * DAY_MS + (IF text[2] = " " THEN text[3] * 1000 ELSE text[3])

\* UPDATE admin_users SET last_login = CURRENT_TIMESTAMP WHERE id = ?
updateLastLogin(users, userId, t) ==
  { IF a.id = userId THEN [a EXCEPT !.last_login = CURRENT_TIMESTAMP(t)] ELSE a
    : a \in users }

(* --------------------------- login attempt ledger ----------------------- *)

\* The login_attempts table is a bag of rows: the id column is never read.

\* the rows of a table that a WHERE clause keeps
Where(ledger, rows) == [r \in rows \cap DOMAIN ledger |-> ledger[r]]

\* variant: a row equal to a stored one is not inserted again
recordLoginAttemptDistinct(ledger, username, ipAddress, success, t) ==
  LET row == [username |-> username, ip_address |-> ipAddress,
              attempted_at |-> CURRENT_TIMESTAMP(t),
              success |-> IF success THEN 1 ELSE 0]
  IN  IF row \in DOMAIN ledger THEN ledger ELSE ledger (+) SetToBag({row})

recordLoginAttempt(ledger, username, ipAddress, success, t) ==
  ledger (+) SetToBag({[username |-> username, ip_address |-> ipAddress,
                        attempted_at |-> CURRENT_TIMESTAMP(t),
                        success |-> IF success THEN 1 ELSE 0]})

\* WHERE username = ? AND success = 0 AND attempted_at > ?  of the lockout queries
RecentFailedRows(ledger, username, t) ==
  LET windowStart == toISOString(t - LOCKOUT_DURATION_MS)
  IN  { r \in DOMAIN ledger :
          /\ r.username = username
          /\ r.success = 0
          /\ TextLess(windowStart, r.attempted_at) }

getRecentFailedAttempts(ledger, username, t) ==
  BagCardinality(Where(ledger, RecentFailedRows(ledger, username, t)))

\* variant: the lock is reported to end LOCKOUT_DURATION_MS from now
isAccountLockedFromNow(ledger, username, t) ==
  LET failedAttempts == getRecentFailedAttempts(ledger, username, t)
  IN  IF failedAttempts >= MAX_FAILED_ATTEMPTS
      THEN [locked |-> TRUE, remainingAttempts |-> 0,
            lockoutEndsAt |-> t + LOCKOUT_DURATION_MS]
      ELSE [locked |-> FALSE,
            remainingAttempts |-> MAX_FAILED_ATTEMPTS - failedAttempts,
            lockoutEndsAt |-> 0]

isAccountLocked(ledger, username, t) ==
  LET failedAttempts == getRecentFailedAttempts(ledger, username, t)
      rows == RecentFailedRows(ledger, username, t)
      oldestAttempt == CHOOSE r \in rows :
                         \A q \in rows : ~TextLess(q.attempted_at, r.attempted_at)
  IN  IF failedAttempts >= MAX_FAILED_ATTEMPTS
      THEN [locked |-> TRUE, remainingAttempts |-> 0,
            lockoutEndsAt |-> IF rows = {} THEN 0
                              ELSE DateParse(oldestAttempt.attempted_at)
                                   + LOCKOUT_DURATION_MS]
      ELSE [locked |-> FALSE,
            remainingAttempts |-> MAX_FAILED_ATTEMPTS - failedAttempts,
            lockoutEndsAt |-> 0]

\* variant: nothing is deleted
clearFailedAttemptsKeepingRows(ledger, username) == ledger

\* DELETE FROM login_attempts WHERE username = ? AND success = 0
clearFailedAttempts(ledger, username) ==
  Where(ledger, { r \in DOMAIN ledger : ~(r.username = username /\ r.success = 0) })

\* DELETE FROM login_attempts WHERE attempted_at < ?
cleanupOldLoginAttempts(ledger, t) ==
  LET cutoff == toISOString(t - RETENTION_MS)
  IN  Where(ledger, { r \in DOMAIN ledger : ~TextLess(r.attempted_at, cutoff) })

(* ------------------------- credential verifier -------------------------- *)

\* variant: an unknown username is answered without a comparison
verifyCredentialsEarlyReturn(users, username, password) ==
  LET user == findAdminByUsername(users, username)
      hash == (CHOOSE a \in user : TRUE).password_hash
  IN  IF user = {}
      THEN [valid |-> FALSE, user |-> 0, compared |-> <<>>]
      ELSE IF bcryptCompare(password, hash)
      THEN [valid |-> TRUE, user |-> (CHOOSE a \in user : TRUE).id,
            compared |-> <<hash>>]
      ELSE [valid |-> FALSE, user |-> 0, compared |-> <<hash>>]

\* user is the account's id, 0 for null; compared lists the digests handed to
\* bcrypt.compare, in order
verifyCredentialsConstantTime(users, username, password) ==
  LET user == findAdminByUsername(users, username)
      hashToCompare == IF user # {} THEN (CHOOSE a \in user : TRUE).password_hash
                       ELSE DUMMY_HASH
      isValid == bcryptCompare(password, hashToCompare)
  IN  IF user # {} /\ isValid
      THEN [valid |-> TRUE, user |-> (CHOOSE a \in user : TRUE).id,
            compared |-> <<hashToCompare>>]
      ELSE [valid |-> FALSE, user |-> 0, compared |-> <<hashToCompare>>]

(* ------------------------------ sessions -------------------------------- *)

\* a session express-session has just generated: no field set (0 and "" are
\* JavaScript's undefined, which the handlers test with "!")
AnonSession == [userId |-> 0, username |-> "", createdAt |-> 0, lastActivity |-> 0]

\* the session a request carries: the stored one its cookie names, else a new one
LoadSession(store, sid) == IF sid \in DOMAIN store THEN store[sid] ELSE AnonSession

\* store.destroy(sid): removing an absent session is not an error
StoreDestroy(store, sid) == [s \in DOMAIN store \ {sid} |-> store[s]]

\* store.set(sid, session)
StoreSet(store, sid, session) ==
  [s \in DOMAIN store \cup {sid} |-> IF s = sid THEN session ELSE store[s]]

\* the identifiers a client can present: none, or any identifier ever issued
PresentableSids == {NoSid} \cup (1 .. (nextSid - 1))

\* res.clearCookie reaches the browser only on the browser's own requests
ClearCookie(held, sid) == IF sid = held THEN NoSid ELSE held

(* ----------------------------- responses -------------------------------- *)

MsgRequired == "Username and password are required for authentication."
MsgLockedPre == "Account temporarily locked due to too many failed attempts. Try again in N minutes."
MsgLockedPost == "Account locked due to too many failed attempts. Try again in 15 minutes."
MsgInvalid == "Invalid credentials. N attempt(s) remaining before lockout."
MsgSystem == "Authentication system error. Please try again."
MsgWelcome == "Authentication successful. Welcome back, administrator."
MsgTooMany == "Too many login attempts. Please try again in 15 minutes."
MsgAuthRequired == "Authentication required. Please log in to access this resource."
MsgOutdated == "Session format outdated. Please log in again."
MsgExpired == "Session expired. Please log in again."
MsgIdle == "Session timed out due to inactivity. Please log in again."
MsgSessionInvalid == "Session invalid. Please log in again."
MsgLogoutError == "Error during logout. Please try again."
MsgLoggedOut == "Logged out successfully. Goodbye, administrator."

\* what the client sees (status, message, n: the number in the message, user: the
\* account id in the body) and, for the properties, what the call was and did:
\* the credentials and cookie presented, the session identifier issued, the
\* digests compared, the failures truly inside the lockout window when the call
\* began, whether a protected route handler was entered, and how long before the
\* request the presented session was issued (age) and last active (idle)
Response(op, status, message, n, user) ==
  [op |-> op, status |-> status, message |-> message, n |-> n, user |-> user,
   username |-> "", password |-> "", presented |-> NoSid, issued |-> NoSid,
   compared |-> <<>>, preFailures |-> 0, admitted |-> FALSE, age |-> 0, idle |-> 0]

NoResponse == Response("none", 0, "", 0, 0)

\* Math.ceil(ms / 60000)
CeilMinutes(ms) == -((-ms) \div 60000)

(* --------------------------- login rate limiter ------------------------- *)

\* express-rate-limit, memory store: the request is counted against its origin; the
\* origin's window opens with its first request and lasts windowMs.  Counts beyond
\* max + 1 behave as max + 1 and are kept there.
loginRateLimiter(h, ip, t) ==
  IF t >= h[ip].resetTime
  THEN [count |-> 1, resetTime |-> t + LimiterWindowMs]
  ELSE [count |-> IF h[ip].count > LimiterMax THEN h[ip].count ELSE h[ip].count + 1,
        resetTime |-> h[ip].resetTime]

\* the store's timer: a window that has ended is forgotten
limiterExpire(entry, t) ==
  IF t >= entry.resetTime THEN [count |-> 0, resetTime |-> 0] ELSE entry

\* skipSuccessfulRequests: a response below 400 gives the request back
limiterSettle(entry, status) ==
  IF status < 400 THEN [entry EXCEPT !.count = entry.count - 1] ELSE entry

(* ------------------------------- login ---------------------------------- *)

\* the failure rows of the username whose time lies in the trailing lockout
\* window, the times compared as times (as the PostgreSQL version's
\* attempted_at > NOW() - INTERVAL '15 minutes' compares them)
TrueFailures(ledger, username, t) ==
  BagCardinality(Where(ledger,
    { r \in DOMAIN ledger :
        /\ r.username = username
        /\ r.success = 0
        /\ DateParse(r.attempted_at) > t - LOCKOUT_DURATION_MS }))

\* variant: an unknown username is refused before the ledger is touched
loginRouteUnknownEarly(users, ledger, store, sid, fresh, username, password, clientIp, t, regenErr, saveErr) ==
  LET R(status, message, n, user) ==
        [Response("login", status, message, n, user) EXCEPT
           !.username = username, !.password = password, !.presented = sid,
           !.preFailures = TrueFailures(ledger, username, t)]
      lockoutStatus == isAccountLocked(ledger, username, t)
      v == verifyCredentialsConstantTime(users, username, password)
      failedLedger == recordLoginAttempt(ledger, username, clientIp, FALSE, t)
      newLockoutStatus == isAccountLocked(failedLedger, username, t)
      user == CHOOSE a \in users : a.id = v.user
  IN  IF username = "" \/ password = ""
      THEN [users |-> users, ledger |-> ledger, store |-> store, cookie |-> sid,
            resp |-> R(400, MsgRequired, 0, 0)]
      ELSE IF findAdminByUsername(users, username) = {}
      THEN [users |-> users, ledger |-> ledger, store |-> store, cookie |-> sid,
            resp |-> R(401, MsgInvalid, MAX_FAILED_ATTEMPTS, 0)]
      ELSE IF lockoutStatus.locked
      THEN [users |-> users, ledger |-> ledger, store |-> store, cookie |-> sid,
            resp |-> R(429, MsgLockedPre, 15, 0)]
      ELSE IF ~v.valid
      THEN [users |-> users, ledger |-> failedLedger, store |-> store, cookie |-> sid,
            resp |-> [(IF newLockoutStatus.locked
                       THEN R(429, MsgLockedPost, 15, 0)
                       ELSE R(401, MsgInvalid, newLockoutStatus.remainingAttempts, 0))
                      EXCEPT !.compared = v.compared]]
      ELSE [users |-> updateLastLogin(users, v.user, t),
            ledger |-> recordLoginAttempt(clearFailedAttempts(ledger, username),
                                          username, clientIp, TRUE, t),
            store |-> StoreSet(StoreDestroy(store, sid), fresh,
                               [userId |-> user.id, username |-> user.username,
                                createdAt |-> t, lastActivity |-> t]),
            cookie |-> fresh,
            resp |-> [R(200, MsgWelcome, 0, user.id) EXCEPT
                        !.compared = v.compared, !.issued = fresh]]

\* variant: the session is not regenerated; the presented identifier is kept
loginRouteWithoutRegenerate(users, ledger, store, sid, fresh, username, password, clientIp, t, regenErr, saveErr) ==
  LET R(status, message, n, user) ==
        [Response("login", status, message, n, user) EXCEPT
           !.username = username, !.password = password, !.presented = sid,
           !.preFailures = TrueFailures(ledger, username, t)]
      lockoutStatus == isAccountLocked(ledger, username, t)
      v == verifyCredentialsConstantTime(users, username, password)
      failedLedger == recordLoginAttempt(ledger, username, clientIp, FALSE, t)
      newLockoutStatus == isAccountLocked(failedLedger, username, t)
      user == CHOOSE a \in users : a.id = v.user
      kept == IF sid # NoSid THEN sid ELSE fresh
  IN  IF username = "" \/ password = ""
      THEN [users |-> users, ledger |-> ledger, store |-> store, cookie |-> sid,
            resp |-> R(400, MsgRequired, 0, 0)]
      ELSE IF lockoutStatus.locked
      THEN [users |-> users, ledger |-> ledger, store |-> store, cookie |-> sid,
            resp |-> R(429, MsgLockedPre, 15, 0)]
      ELSE IF ~v.valid
      THEN [users |-> users, ledger |-> failedLedger, store |-> store, cookie |-> sid,
            resp |-> [(IF newLockoutStatus.locked
                       THEN R(429, MsgLockedPost, 15, 0)
                       ELSE R(401, MsgInvalid, newLockoutStatus.remainingAttempts, 0))
                      EXCEPT !.compared = v.compared]]
      ELSE [users |-> updateLastLogin(users, v.user, t),
            ledger |-> recordLoginAttempt(clearFailedAttempts(ledger, username),
                                          username, clientIp, TRUE, t),
            store |-> StoreSet(store, kept,
                               [userId |-> user.id, username |-> user.username,
                                createdAt |-> t, lastActivity |-> t]),
            cookie |-> kept,
            resp |-> [R(200, MsgWelcome, 0, user.id) EXCEPT
                        !.compared = v.compared, !.issued = kept]]

\* variant: the success response does not wait for the session to be saved
loginRouteRespondingBeforeSave(users, ledger, store, sid, fresh, username, password, clientIp, t, regenErr, saveErr) ==
  LET R(status, message, n, user) ==
        [Response("login", status, message, n, user) EXCEPT
           !.username = username, !.password = password, !.presented = sid,
           !.preFailures = TrueFailures(ledger, username, t)]
      lockoutStatus == isAccountLocked(ledger, username, t)
      v == verifyCredentialsConstantTime(users, username, password)
      failedLedger == recordLoginAttempt(ledger, username, clientIp, FALSE, t)
      newLockoutStatus == isAccountLocked(failedLedger, username, t)
      okLedger == recordLoginAttempt(clearFailedAttempts(ledger, username),
                                     username, clientIp, TRUE, t)
      okUsers == updateLastLogin(users, v.user, t)
      user == CHOOSE a \in users : a.id = v.user
      session == [userId |-> user.id, username |-> user.username,
                  createdAt |-> t, lastActivity |-> t]
  IN  IF username = "" \/ password = ""
      THEN [users |-> users, ledger |-> ledger, store |-> store, cookie |-> sid,
            resp |-> R(400, MsgRequired, 0, 0)]
      ELSE IF lockoutStatus.locked
      THEN [users |-> users, ledger |-> ledger, store |-> store, cookie |-> sid,
            resp |-> R(429, MsgLockedPre, 15, 0)]
      ELSE IF ~v.valid
      THEN [users |-> users, ledger |-> failedLedger, store |-> store, cookie |-> sid,
            resp |-> [(IF newLockoutStatus.locked
                       THEN R(429, MsgLockedPost, 15, 0)
                       ELSE R(401, MsgInvalid, newLockoutStatus.remainingAttempts, 0))
                      EXCEPT !.compared = v.compared]]
      ELSE IF regenErr
      THEN [users |-> okUsers, ledger |-> okLedger, store |-> store, cookie |-> NoSid,
            resp |-> [R(500, MsgSystem, 0, 0) EXCEPT !.compared = v.compared]]
      ELSE [users |-> okUsers, ledger |-> okLedger,
            store |-> IF saveErr THEN StoreDestroy(store, sid)
                      ELSE StoreSet(StoreDestroy(store, sid), fresh, session),
            cookie |-> fresh,
            resp |-> [R(200, MsgWelcome, 0, user.id) EXCEPT
                        !.compared = v.compared, !.issued = fresh]]

\* router.post('/login') behind the limiter: sid is the cookie presented, fresh the
\* identifier regenerate allocates; the result is the tables, the store and the
\* browser's cookie after the call, and the response
\* variant: the credentials are verified before the lock is looked at
loginRouteVerifyingFirst(users, ledger, store, sid, fresh, username, password, clientIp, t, regenErr, saveErr) ==
  LET R(status, message, n, user) ==
        [Response("login", status, message, n, user) EXCEPT
           !.username = username, !.password = password, !.presented = sid,
           !.preFailures = TrueFailures(ledger, username, t)]
      lockoutStatus == isAccountLocked(ledger, username, t)
      minutesRemaining ==
        IF lockoutStatus.lockoutEndsAt # 0
        THEN CeilMinutes(lockoutStatus.lockoutEndsAt - t) ELSE 15
      v == verifyCredentialsConstantTime(users, username, password)
      failedLedger == recordLoginAttempt(ledger, username, clientIp, FALSE, t)
      newLockoutStatus == isAccountLocked(failedLedger, username, t)
      okLedger == recordLoginAttempt(clearFailedAttempts(ledger, username),
                                     username, clientIp, TRUE, t)
      okUsers == updateLastLogin(users, v.user, t)
      user == CHOOSE a \in users : a.id = v.user
      session == [userId |-> user.id, username |-> user.username,
                  createdAt |-> t, lastActivity |-> t]
  IN  IF username = "" \/ password = ""
      THEN [users |-> users, ledger |-> ledger, store |-> store, cookie |-> sid,
            resp |-> R(400, MsgRequired, 0, 0)]
      ELSE IF lockoutStatus.locked
      THEN [users |-> users, ledger |-> ledger, store |-> store, cookie |-> sid,
            resp |-> [R(429, MsgLockedPre, minutesRemaining, 0) EXCEPT
                        !.compared = v.compared]]
      ELSE IF ~v.valid
      THEN [users |-> users, ledger |-> failedLedger, store |-> store, cookie |-> sid,
            resp |-> [(IF newLockoutStatus.locked
                       THEN R(429, MsgLockedPost, 15, 0)
                       ELSE R(401, MsgInvalid, newLockoutStatus.remainingAttempts, 0))
                      EXCEPT !.compared = v.compared]]
      ELSE IF regenErr
      \* store.destroy failed: the presented session stays stored; the handler
      \* destroys the session generated in its place and clears the cookie
      THEN [users |-> okUsers, ledger |-> okLedger, store |-> store, cookie |-> NoSid,
            resp |-> [R(500, MsgSystem, 0, 0) EXCEPT !.compared = v.compared]]
      ELSE IF saveErr
      THEN [users |-> okUsers, ledger |-> okLedger, store |-> StoreDestroy(store, sid),
            cookie |-> NoSid,
            resp |-> [R(500, MsgSystem, 0, 0) EXCEPT !.compared = v.compared]]
      ELSE [users |-> okUsers, ledger |-> okLedger,
            store |-> StoreSet(StoreDestroy(store, sid), fresh, session),
            cookie |-> fresh,
            resp |-> [R(200, MsgWelcome, 0, user.id) EXCEPT
                        !.compared = v.compared, !.issued = fresh]]

loginRoute(users, ledger, store, sid, fresh, username, password, clientIp, t, regenErr, saveErr) ==
  LET R(status, message, n, user) ==
        [Response("login", status, message, n, user) EXCEPT
           !.username = username, !.password = password, !.presented = sid,
           !.preFailures = TrueFailures(ledger, username, t)]
      lockoutStatus == isAccountLocked(ledger, username, t)
      minutesRemaining ==
        IF lockoutStatus.lockoutEndsAt # 0
        THEN CeilMinutes(lockoutStatus.lockoutEndsAt - t) ELSE 15
      v == verifyCredentialsConstantTime(users, username, password)
      failedLedger == recordLoginAttempt(ledger, username, clientIp, FALSE, t)
      newLockoutStatus == isAccountLocked(failedLedger, username, t)
      okLedger == recordLoginAttempt(clearFailedAttempts(ledger, username),
                                     username, clientIp, TRUE, t)
      okUsers == updateLastLogin(users, v.user, t)
      user == CHOOSE a \in users : a.id = v.user
      session == [userId |-> user.id, username |-> user.username,
                  createdAt |-> t, lastActivity |-> t]
  IN  IF username = "" \/ password = ""
      THEN [users |-> users, ledger |-> ledger, store |-> store, cookie |-> sid,
            resp |-> R(400, MsgRequired, 0, 0)]
      ELSE IF lockoutStatus.locked
      THEN [users |-> users, ledger |-> ledger, store |-> store, cookie |-> sid,
            resp |-> R(429, MsgLockedPre, minutesRemaining, 0)]
      ELSE IF ~v.valid
      THEN [users |-> users, ledger |-> failedLedger, store |-> store, cookie |-> sid,
            resp |-> [(IF newLockoutStatus.locked
                       THEN R(429, MsgLockedPost, 15, 0)
                       ELSE R(401, MsgInvalid, newLockoutStatus.remainingAttempts, 0))
                      EXCEPT !.compared = v.compared]]
      ELSE IF regenErr
      \* store.destroy failed: the presented session stays stored; the handler
      \* destroys the session generated in its place and clears the cookie
      THEN [users |-> okUsers, ledger |-> okLedger, store |-> store, cookie |-> NoSid,
            resp |-> [R(500, MsgSystem, 0, 0) EXCEPT !.compared = v.compared]]
      ELSE IF saveErr
      THEN [users |-> okUsers, ledger |-> okLedger, store |-> StoreDestroy(store, sid),
            cookie |-> NoSid,
            resp |-> [R(500, MsgSystem, 0, 0) EXCEPT !.compared = v.compared]]
      ELSE [users |-> okUsers, ledger |-> okLedger,
            store |-> StoreSet(StoreDestroy(store, sid), fresh, session),
            cookie |-> fresh,
            resp |-> [R(200, MsgWelcome, 0, user.id) EXCEPT
                        !.compared = v.compared, !.issued = fresh]]

\* the handler when the INSERT of recordLoginAttempt throws: the call stands in
\* the handler's try block, whose catch answers 500; what ran before the call
\* (the DELETE of clearFailedAttempts) stays done, what follows it is not run
loginRouteInsertFailing(users, ledger, store, sid, username, password, clientIp, t) ==
  LET R(status, message, n, user) ==
        [Response("login", status, message, n, user) EXCEPT
           !.username = username, !.password = password, !.presented = sid,
           !.preFailures = TrueFailures(ledger, username, t)]
      lockoutStatus == isAccountLocked(ledger, username, t)
      minutesRemaining ==
        IF lockoutStatus.lockoutEndsAt # 0
        THEN CeilMinutes(lockoutStatus.lockoutEndsAt - t) ELSE 15
      v == verifyCredentialsConstantTime(users, username, password)
  IN  IF username = "" \/ password = ""
      THEN [users |-> users, ledger |-> ledger, store |-> store, cookie |-> sid,
            resp |-> R(400, MsgRequired, 0, 0)]
      ELSE IF lockoutStatus.locked
      THEN [users |-> users, ledger |-> ledger, store |-> store, cookie |-> sid,
            resp |-> R(429, MsgLockedPre, minutesRemaining, 0)]
      ELSE IF ~v.valid
      THEN [users |-> users, ledger |-> ledger, store |-> store, cookie |-> sid,
            resp |-> [R(500, MsgSystem, 0, 0) EXCEPT !.compared = v.compared]]
      ELSE [users |-> users, ledger |-> clearFailedAttempts(ledger, username),
            store |-> store, cookie |-> sid,
            resp |-> [R(500, MsgSystem, 0, 0) EXCEPT !.compared = v.compared]]

\* POST /api/admin/login while the login_attempts table cannot be written
LoginInsertFailing(username, password, ip) ==
  /\ LET entry == loginRateLimiter(hits, ip, now)
         r == loginRouteInsertFailing(admin_users, login_attempts, sessions, cookie,
                                      username, password, ip, now)
     IN  IF entry.count > LimiterMax
         THEN /\ hits' = [hits EXCEPT ![ip] = entry]
              /\ resp' = [Response("login", 429, MsgTooMany, 0, 0) EXCEPT
                            !.username = username, !.password = password,
                            !.presented = cookie,
                            !.preFailures = TrueFailures(login_attempts, username, now)]
              /\ UNCHANGED <<admin_users, login_attempts, sessions, cookie>>
         ELSE /\ hits' = [hits EXCEPT ![ip] = limiterSettle(entry, r.resp.status)]
              /\ admin_users' = r.users
              /\ login_attempts' = r.ledger
              /\ sessions' = r.store
              /\ cookie' = r.cookie
              /\ resp' = r.resp
  /\ UNCHANGED <<db, boot, pending, now, nextSid, issuedAt, succeeded, logouts>>

\* POST /api/admin/login from the browser
Login(username, password, ip, regenErr, saveErr) ==
  /\ BagCardinality(login_attempts) <= MaxLedger
  /\ LET entry == loginRateLimiter(hits, ip, now)
         r == loginRoute(admin_users, login_attempts, sessions, cookie, nextSid,
                         username, password, ip, now, regenErr, saveErr)
     IN  IF entry.count > LimiterMax
         THEN /\ hits' = [hits EXCEPT ![ip] = entry]
              /\ resp' = [Response("login", 429, MsgTooMany, 0, 0) EXCEPT
                            !.username = username, !.password = password,
                            !.presented = cookie,
                            !.preFailures = TrueFailures(login_attempts, username, now)]
              /\ UNCHANGED <<admin_users, login_attempts, sessions, cookie, nextSid,
                             issuedAt, succeeded>>
         ELSE /\ r.resp.issued = NoSid \/ nextSid <= MaxSid
              /\ hits' = [hits EXCEPT ![ip] = limiterSettle(entry, r.resp.status)]
              /\ admin_users' = r.users
              /\ login_attempts' = r.ledger
              /\ sessions' = r.store
              /\ cookie' = r.cookie
              /\ nextSid' = IF r.resp.issued # NoSid THEN nextSid + 1 ELSE nextSid
              /\ issuedAt' = IF r.resp.issued # NoSid
                             THEN [issuedAt EXCEPT ![r.resp.issued] = now]
                             ELSE issuedAt
              /\ succeeded' =
                   IF r.resp.status = 200 THEN succeeded \cup {username}
                   ELSE IF r.resp.status \in {401, 429} /\ r.ledger # login_attempts
                   THEN succeeded \ {username}
                   ELSE succeeded
              /\ resp' = r.resp
  /\ UNCHANGED <<db, boot, pending, now, logouts>>

\* the handler from the point where the await of verifyCredentialsConstantTime
\* resumes it: v is what the credential check resolved to, ledger and store
\* are the tables as they are now, not as the lock check saw them
loginRouteResumed(users, ledger, store, sid, fresh, username, password, clientIp, t, v) ==
  LET R(status, message, n, user) ==
        [Response("login", status, message, n, user) EXCEPT
           !.username = username, !.password = password, !.presented = sid,
           !.preFailures = TrueFailures(ledger, username, t),
           !.compared = v.compared]
      failedLedger == recordLoginAttempt(ledger, username, clientIp, FALSE, t)
      newLockoutStatus == isAccountLocked(failedLedger, username, t)
      okLedger == recordLoginAttempt(clearFailedAttempts(ledger, username),
                                     username, clientIp, TRUE, t)
      okUsers == updateLastLogin(users, v.user, t)
      user == CHOOSE a \in users : a.id = v.user
      session == [userId |-> user.id, username |-> user.username,
                  createdAt |-> t, lastActivity |-> t]
  IN  IF ~v.valid
      THEN [users |-> users, ledger |-> failedLedger, store |-> store, cookie |-> sid,
            resp |-> IF newLockoutStatus.locked
                     THEN R(429, MsgLockedPost, 15, 0)
                     ELSE R(401, MsgInvalid, newLockoutStatus.remainingAttempts, 0)]
      ELSE [users |-> okUsers, ledger |-> okLedger,
            store |-> StoreSet(StoreDestroy(store, sid), fresh, session),
            cookie |-> fresh,
            resp |-> [R(200, MsgWelcome, 0, user.id) EXCEPT !.issued = fresh]]

\* a login call as it stands at the await: its body, its origin, the session
\* identifier it presented and the result its credential check will resolve to
PendingCall(username, password, ip, sid, v) ==
  [username |-> username, password |-> password, ip |-> ip, sid |-> sid, v |-> v]

\* POST /api/admin/login up to the await of the credential check: a call the
\* limiter, the body check or the lock check refuses is answered at once, any
\* other is suspended while bcrypt runs and other requests are served
BeginLogin(username, password, ip) ==
  IF \/ loginRateLimiter(hits, ip, now).count > LimiterMax
     \/ username = "" \/ password = ""
     \/ isAccountLocked(login_attempts, username, now).locked
  THEN Login(username, password, ip, FALSE, FALSE)
  ELSE /\ BagCardinality(login_attempts) + BagCardinality(pending) <= MaxRaceLedger
       /\ BagCardinality(pending) < MaxPending
       /\ hits' = [hits EXCEPT ![ip] = loginRateLimiter(hits, ip, now)]
       /\ pending' = pending (+) SetToBag({PendingCall(username, password, ip, cookie,
                        verifyCredentialsConstantTime(admin_users, username, password))})
       /\ UNCHANGED <<db, boot, now, admin_users, login_attempts, sessions, cookie,
                      nextSid, resp, issuedAt, succeeded, logouts>>

\* the credential check of a suspended call resolves and the handler runs to
\* its response
FinishLogin ==
  \E call \in DOMAIN pending :
    LET r == loginRouteResumed(admin_users, login_attempts, sessions, call.sid, nextSid,
                               call.username, call.password, call.ip, now, call.v)
    IN  /\ r.resp.issued = NoSid \/ nextSid <= MaxSid
        /\ pending' = pending (-) SetToBag({call})
        /\ hits' = IF r.resp.status < 400 /\ hits[call.ip].count > 0
                   THEN [hits EXCEPT ![call.ip] = limiterSettle(hits[call.ip], r.resp.status)]
                   ELSE hits
        /\ admin_users' = r.users
        /\ login_attempts' = r.ledger
        /\ sessions' = r.store
        /\ cookie' = r.cookie
        /\ nextSid' = IF r.resp.issued # NoSid THEN nextSid + 1 ELSE nextSid
        /\ issuedAt' = IF r.resp.issued # NoSid
                       THEN [issuedAt EXCEPT ![r.resp.issued] = now]
                       ELSE issuedAt
        /\ succeeded' = IF r.resp.status = 200 THEN succeeded \cup {call.username}
                        ELSE succeeded \ {call.username}
        /\ resp' = r.resp
        /\ UNCHANGED <<db, boot, now, logouts>>

\* POST /api/admin/login as the release before the session metadata handled it:
\* no ledger, and a session payload of userId and username only.  Its sessions
\* stay in the store when the release is replaced.
LegacyLogin(username, password) ==
  LET user == findAdminByUsername(admin_users, username)
      account == CHOOSE a \in user : TRUE
  IN  /\ nextSid <= MaxSid
      /\ user # {}
      /\ bcryptCompare(password, account.password_hash)
      /\ admin_users' = updateLastLogin(admin_users, account.id, now)
      /\ sessions' = StoreSet(StoreDestroy(sessions, cookie), nextSid,
                              [userId |-> account.id, username |-> account.username,
                               createdAt |-> 0, lastActivity |-> 0])
      /\ cookie' = nextSid
      /\ nextSid' = nextSid + 1
      /\ issuedAt' = [issuedAt EXCEPT ![nextSid] = now]
      /\ resp' = [Response("login", 200, MsgWelcome, 0, account.id) EXCEPT
                    !.username = username, !.password = password,
                    !.presented = cookie, !.issued = nextSid]
      /\ UNCHANGED <<db, boot, pending, now, login_attempts, hits, succeeded, logouts>>

(* ------------------------- session validation --------------------------- *)

\* variant: a session without metadata is let through, and so given a lastActivity
requireAuthRepairing(session, t) ==
  IF session.userId = 0 THEN "unauthenticated"
  ELSE IF session.createdAt = 0 \/ session.lastActivity = 0 THEN "next"
  ELSE IF (t - session.createdAt) > SESSION_MAX_AGE_MS THEN "expired"
  ELSE IF (t - session.lastActivity) > SESSION_IDLE_TIMEOUT_MS THEN "idle"
  ELSE "next"

\* variant: no absolute lifetime
requireAuthWithoutMaxAge(session, t) ==
  IF session.userId = 0 THEN "unauthenticated"
  ELSE IF session.createdAt = 0 \/ session.lastActivity = 0 THEN "outdated"
  ELSE IF (t - session.lastActivity) > SESSION_IDLE_TIMEOUT_MS THEN "idle"
  ELSE "next"

\* variant: no idle timeout
requireAuthWithoutIdle(session, t) ==
  IF session.userId = 0 THEN "unauthenticated"
  ELSE IF session.createdAt = 0 \/ session.lastActivity = 0 THEN "outdated"
  ELSE IF (t - session.createdAt) > SESSION_MAX_AGE_MS THEN "expired"
  ELSE "next"

\* requireAuth: "next" admits the request to the route handler
requireAuth(session, t) ==
  IF session.userId = 0 THEN "unauthenticated"
  ELSE IF session.createdAt = 0 \/ session.lastActivity = 0 THEN "outdated"
  ELSE IF (t - session.createdAt) > SESSION_MAX_AGE_MS THEN "expired"
  ELSE IF (t - session.lastActivity) > SESSION_IDLE_TIMEOUT_MS THEN "idle"
  ELSE "next"

requireAuthMessage(outcome) ==
  CASE outcome = "unauthenticated" -> MsgAuthRequired
    [] outcome = "outdated" -> MsgOutdated
    [] outcome = "expired" -> MsgExpired
    [] outcome = "idle" -> MsgIdle

\* variant: an admitted request leaves lastActivity as it was
ProtectedWithoutTouch(sid, handler) ==
  LET session == LoadSession(sessions, sid)
      outcome == requireAuth(session, now)
      R(status, message, user) ==
        [Response(handler, status, message, 0, user) EXCEPT
           !.presented = sid,
           !.age = IF sid \in DOMAIN sessions THEN now - issuedAt[sid] ELSE 0,
           !.idle = IF session.lastActivity # 0 THEN now - session.lastActivity ELSE 0]
      touched == [session EXCEPT !.lastActivity = now]
  IN  /\ IF outcome = "unauthenticated"
         THEN /\ resp' = R(401, MsgAuthRequired, 0)
              /\ UNCHANGED <<sessions, cookie>>
         ELSE IF outcome # "next"
         THEN /\ sessions' = StoreDestroy(sessions, sid)
              /\ cookie' = ClearCookie(cookie, sid)
              /\ resp' = R(401, requireAuthMessage(outcome), 0)
         ELSE IF handler = "me" /\ findAdminById(admin_users, session.userId) = {}
         THEN /\ sessions' = StoreDestroy(sessions, sid)
              /\ cookie' = ClearCookie(cookie, sid)
              /\ resp' = [R(401, MsgSessionInvalid, 0) EXCEPT !.admitted = TRUE]
         ELSE /\ sessions' = sessions
              /\ resp' = [R(200, "", session.userId) EXCEPT !.admitted = TRUE]
              /\ UNCHANGED cookie
     /\ UNCHANGED <<db, boot, pending, now, admin_users, login_attempts, nextSid, hits, issuedAt,
                    succeeded, logouts>>

\* a request for a route behind requireAuth; handler tells what the route does
\* once admitted: "admin" (the protected admin routes) or "me"
Protected(sid, handler) ==
  LET session == LoadSession(sessions, sid)
      outcome == requireAuth(session, now)
      R(status, message, user) ==
        [Response(handler, status, message, 0, user) EXCEPT
           !.presented = sid,
           !.age = IF sid \in DOMAIN sessions THEN now - issuedAt[sid] ELSE 0,
           !.idle = IF session.lastActivity # 0 THEN now - session.lastActivity ELSE 0]
      touched == [session EXCEPT !.lastActivity = now]
  IN  /\ IF outcome = "unauthenticated"
         THEN /\ resp' = R(401, MsgAuthRequired, 0)
              /\ UNCHANGED <<sessions, cookie>>
         ELSE IF outcome # "next"
         THEN /\ sessions' = StoreDestroy(sessions, sid)
              /\ cookie' = ClearCookie(cookie, sid)
              /\ resp' = R(401, requireAuthMessage(outcome), 0)
         ELSE IF handler = "me" /\ findAdminById(admin_users, session.userId) = {}
         THEN /\ sessions' = StoreDestroy(sessions, sid)
              /\ cookie' = ClearCookie(cookie, sid)
              /\ resp' = [R(401, MsgSessionInvalid, 0) EXCEPT !.admitted = TRUE]
         ELSE /\ sessions' = StoreSet(sessions, sid, touched)
              /\ resp' = [R(200, "", session.userId) EXCEPT !.admitted = TRUE]
              /\ UNCHANGED cookie
     /\ UNCHANGED <<db, boot, pending, now, admin_users, login_attempts, nextSid, hits, issuedAt,
                    succeeded, logouts>>

\* GET /api/admin/ratings, DELETE /api/admin/ratings/:id, GET /api/admin/stats
AdminRoute(sid) == Protected(sid, "admin")

\* GET /api/admin/me
Me(sid) == Protected(sid, "me")

\* variant: the cookie is cleared, the stored session is kept
logoutRouteKeepingSession(store, held, sid, destroyErr) ==
  IF destroyErr
  THEN [store |-> store, cookie |-> held,
        resp |-> [Response("logout", 500, MsgLogoutError, 0, 0) EXCEPT
                    !.presented = sid]]
  ELSE [store |-> store, cookie |-> ClearCookie(held, sid),
        resp |-> [Response("logout", 200, MsgLoggedOut, 0, 0) EXCEPT
                    !.presented = sid]]

\* variant: a caller without a stored session is answered differently
logoutRouteAlreadyLoggedOut(store, held, sid, destroyErr) ==
  IF sid \notin DOMAIN store
  THEN [store |-> store, cookie |-> held,
        resp |-> [Response("logout", 401, MsgAuthRequired, 0, 0) EXCEPT
                    !.presented = sid]]
  ELSE IF destroyErr
  THEN [store |-> store, cookie |-> held,
        resp |-> [Response("logout", 500, MsgLogoutError, 0, 0) EXCEPT
                    !.presented = sid]]
  ELSE [store |-> StoreDestroy(store, sid), cookie |-> ClearCookie(held, sid),
        resp |-> [Response("logout", 200, MsgLoggedOut, 0, 0) EXCEPT
                    !.presented = sid]]

\* router.post('/logout'): the store, the browser's cookie and the response after
\* the call, held being the cookie the browser holds.  express-session always attaches a session to the request, so the
\* handler's first branch is never taken.
logoutRoute(store, held, sid, destroyErr) ==
  IF destroyErr
  THEN [store |-> store, cookie |-> held,
        resp |-> [Response("logout", 500, MsgLogoutError, 0, 0) EXCEPT
                    !.presented = sid]]
  ELSE [store |-> StoreDestroy(store, sid), cookie |-> ClearCookie(held, sid),
        resp |-> [Response("logout", 200, MsgLoggedOut, 0, 0) EXCEPT
                    !.presented = sid]]

\* POST /api/admin/logout
Logout(sid, destroyErr) ==
  LET r == logoutRoute(sessions, cookie, sid, destroyErr)
  IN  /\ sessions' = r.store
      /\ cookie' = r.cookie
      /\ resp' = r.resp
      /\ logouts' = IF LoadSession(sessions, sid).userId # 0
                    THEN logouts \cup {<<sid, r.resp.status>>}
                    ELSE logouts
      /\ UNCHANGED <<db, boot, pending, now, admin_users, login_attempts, nextSid, hits, issuedAt,
                     succeeded>>

(* ------------------------------ maintenance ----------------------------- *)

\* an operator deletes an administrator's row from admin_users (the application
\* has no route for it; router.get('/me') provides for the row being gone)
AccountRemoved ==
  /\ \E a \in admin_users : admin_users' = admin_users \ {a}
  /\ UNCHANGED <<db, boot, pending, now, login_attempts, sessions, cookie, nextSid, hits, resp, issuedAt,
                 succeeded, logouts>>

\* the six-hourly job of startServer
Maintenance ==
  /\ login_attempts' = cleanupOldLoginAttempts(login_attempts, now)
  /\ UNCHANGED <<db, boot, pending, now, admin_users, sessions, cookie, nextSid, hits, resp, issuedAt,
                 succeeded, logouts>>

\* the server process is restarted: the limiter's memory store starts empty,
\* the calls in flight are lost and startServer runs the cleanup once
Restart ==
  /\ hits' = [ip \in Ips |-> [count |-> 0, resetTime |-> 0]]
  /\ login_attempts' = cleanupOldLoginAttempts(login_attempts, now)
  /\ pending' = EmptyBag
  /\ UNCHANGED <<db, boot, now, admin_users, sessions, cookie, nextSid, resp, issuedAt,
                 succeeded, logouts>>

(* ------------------------------- the clock ------------------------------ *)

\* time passes; the limiter's store drops the windows that have ended
Advance(ms) ==
  /\ now' = now + ms
  /\ hits' = [ip \in Ips |-> limiterExpire(hits[ip], now + ms)]
  /\ UNCHANGED <<db, boot, pending, admin_users, login_attempts, sessions, cookie, nextSid, resp, issuedAt,
                 succeeded, logouts>>

Tick == now < T0 + MaxSteps * StepMs /\ Advance(StepMs)

HalfHour == now < T0 + MaxHalfHours * HalfHourMs /\ Advance(HalfHourMs)

(* ------------------------ the sessions table ---------------------------- *)

\* A stored value is its storage class and its text; a column is its name and
\* declared type; a row maps the column names to values.  The database is
\* db.tables (name to columns and rows) and db.indexes (name, tbl, column).

Text(s) == [class |-> "text", repr |-> s]

Integer(s) == [class |-> "integer", repr |-> s]

\* what a column declared TEXT stores of a value: a number becomes its text
TextAffinity(v) == IF v.class = "integer" THEN Text(v.repr) ELSE v

Column(name, type) == [name |-> name, type |-> type]

ColumnNames(table) == { table.columns[i].name : i \in DOMAIN table.columns }

IndexNames(d) == { i.name : i \in d.indexes }

\* sid TEXT PRIMARY KEY NOT NULL, sess TEXT NOT NULL, expire TEXT NOT NULL
SessionsColumns ==
  <<Column("sid", "TEXT"), Column("sess", "TEXT"), Column("expire", "TEXT")>>

\* sid TEXT PRIMARY KEY NOT NULL, sess TEXT NOT NULL, expired INTEGER NOT NULL
LegacyColumns ==
  <<Column("sid", "TEXT"), Column("sess", "TEXT"), Column("expired", "INTEGER")>>

NoError == [message |-> "", names |-> {}]

SqliteError(message, names) == [message |-> message, names |-> names]

Done(d) == [db |-> d, error |-> NoError]

Failed(d, error) == [db |-> d, error |-> error]

\* CREATE TABLE name (columns)
CreateTable(d, name, columns) ==
  IF name \in DOMAIN d.tables
  THEN Failed(d, SqliteError("table already exists", {name}))
  ELSE Done([d EXCEPT !.tables = (name :> [columns |-> columns, rows |-> {}]) @@ @])

\* variant: no row is copied
InsertSelectNothing(d) == Done(d)

\* INSERT INTO sessions_new (sid, sess, expire) SELECT sid, sess, expired FROM sessions
InsertSelect(d) ==
  LET source == d.tables["sessions"]
      selected == <<"sid", "sess", "expired">>
      missing == { i \in 1 .. 3 : selected[i] \notin ColumnNames(source) }
      first == CHOOSE i \in missing : \A j \in missing : i <= j
      copied == { [sid |-> TextAffinity(r["sid"]), sess |-> TextAffinity(r["sess"]),
                   expire |-> TextAffinity(r["expired"])] : r \in source.rows }
  IN  IF missing # {}
      THEN Failed(d, SqliteError("no such column", {selected[first]}))
      ELSE IF Cardinality({ r.sid : r \in copied }) # Cardinality(source.rows)
      THEN Failed(d, SqliteError("UNIQUE constraint failed", {"sid"}))
      ELSE Done([d EXCEPT !.tables["sessions_new"].rows = copied])

\* DROP INDEX IF EXISTS name
DropIndexIfExists(d, name) ==
  Done([d EXCEPT !.indexes = { i \in @ : i.name # name }])

\* DROP TABLE name: the table goes with its indexes
DropTable(d, name) ==
  IF name \notin DOMAIN d.tables
  THEN Failed(d, SqliteError("no such table", {name}))
  ELSE Done([tables |-> [t \in DOMAIN d.tables \ {name} |-> d.tables[t]],
             indexes |-> { i \in d.indexes : i.tbl # name }])

\* ALTER TABLE old RENAME TO new
RenameTable(d, old, new) ==
  IF new \in DOMAIN d.tables
  THEN Failed(d, SqliteError("there is already another table or index with this name",
                             {new}))
  ELSE Done([tables |-> (new :> d.tables[old])
                        @@ [t \in DOMAIN d.tables \ {old} |-> d.tables[t]],
             indexes |-> { IF i.tbl = old THEN [i EXCEPT !.tbl = new] ELSE i
                           : i \in d.indexes }])

\* CREATE INDEX [IF NOT EXISTS] name ON tbl(column)
CreateIndex(d, ifNotExists, name, tbl, column) ==
  IF name \in IndexNames(d)
  THEN IF ifNotExists THEN Done(d)
       ELSE Failed(d, SqliteError("index already exists", {name}))
  ELSE IF column \notin ColumnNames(d.tables[tbl])
  THEN Failed(d, SqliteError("no such column", {column}))
  ELSE Done([d EXCEPT !.indexes = @ \cup {[name |-> name, tbl |-> tbl,
                                           column |-> column]}])

\* the statements between BEGIN TRANSACTION and COMMIT, in order
MigrationStatement(k, d) ==
  CASE k = 1 -> CreateTable(d, "sessions_new", SessionsColumns)
    [] k = 2 -> InsertSelect(d)
    [] k = 3 -> DropIndexIfExists(d, "idx_sessions_expired")
    [] k = 4 -> DropTable(d, "sessions")
    [] k = 5 -> RenameTable(d, "sessions_new", "sessions")
    [] k = 6 -> CreateIndex(d, FALSE, "idx_sessions_expire", "sessions", "expire")

MigrationSteps == 6

\* COMMIT, as a step that can fail
CommitStep == 7

DiskError == SqliteError("disk I/O error", {})

\* db.exec runs the statements one after another and throws at the first that
\* fails, by its own error or by the fault injected at step failAt
RECURSIVE Exec(_, _, _)
Exec(d, k, failAt) ==
  IF k > MigrationSteps THEN Done(d)
  ELSE IF k = failAt THEN Failed(d, DiskError)
  ELSE LET r == MigrationStatement(k, d)
       IN  IF r.error # NoError THEN r ELSE Exec(r.db, k + 1, failAt)

\* variant: the statements run without BEGIN TRANSACTION, each committed alone
migrateSessionsAutocommit(d, failAt) ==
  LET r == Exec(d, 1, failAt)
  IN  IF r.error = NoError /\ failAt = CommitStep THEN Failed(r.db, DiskError) ELSE r

\* the migration's try block: what the transaction changed is in the file only
\* once COMMIT has run; exec throwing, the error is rethrown, the process ends
\* with the transaction open and the file keeps what it held
migrateSessions(d, failAt) ==
  LET r == Exec(d, 1, failAt)
  IN  IF r.error # NoError THEN Failed(d, r.error)
      ELSE IF failAt = CommitStep THEN Failed(d, DiskError)
      ELSE Done(r.db)

\* variant: the migration runs whenever the column expired is there
setupSessionsTableMigratingBoth(d, failAt) ==
  LET prepared ==
        IF "sessions" \in DOMAIN d.tables
        THEN IF "expired" \in ColumnNames(d.tables["sessions"])
             THEN migrateSessions(d, failAt)
             ELSE Done(d)
        ELSE CreateTable(d, "sessions", SessionsColumns)
  IN  IF prepared.error # NoError THEN prepared
      ELSE CreateIndex(prepared.db, TRUE, "idx_sessions_expire", "sessions", "expire")

\* the module's sessions table setup on the database file d
setupSessionsTable(d, failAt) ==
  LET sessionsTableExists == "sessions" \in DOMAIN d.tables
      tableInfo == ColumnNames(d.tables["sessions"])
      hasExpiredColumn == "expired" \in tableInfo
      hasExpireColumn == "expire" \in tableInfo
      prepared ==
        IF sessionsTableExists
        THEN IF hasExpiredColumn /\ ~hasExpireColumn
             THEN migrateSessions(d, failAt)
             ELSE Done(d)
        ELSE CreateTable(d, "sessions", SessionsColumns)
  IN  IF prepared.error # NoError THEN prepared
      ELSE CreateIndex(prepared.db, TRUE, "idx_sessions_expire", "sessions", "expire")

EmptyDatabase == [tables |-> [t \in {} |-> {}], indexes |-> {}]

Stopped == [state |-> "stopped", error |-> NoError]

Ready == [state |-> "ready", error |-> NoError]

\* node loads the module: the setup runs; an error thrown ends the process
StartServer ==
  /\ boot.state = "stopped"
  /\ \E failAt \in 0 .. CommitStep :
       LET r == setupSessionsTable(db, failAt)
       IN  /\ db' = r.db
           /\ boot' = IF r.error = NoError THEN Ready
                      ELSE [state |-> "failed", error |-> r.error]
  /\ UNCHANGED <<pending, now, admin_users, login_attempts, sessions, cookie, nextSid, hits,
                 resp, issuedAt, succeeded, logouts>>

\* the process is stopped, or started anew after a failed start
StopServer ==
  /\ boot.state # "stopped"
  /\ boot' = Stopped
  /\ UNCHANGED <<db, pending, now, admin_users, login_attempts, sessions, cookie, nextSid,
                 hits, resp, issuedAt, succeeded, logouts>>

\* the column layouts a database file may bring: the first release's, the
\* current one, both expiry columns, and tables lacking a column
ColumnLayouts ==
  { LegacyColumns,
    SessionsColumns,
    <<Column("sid", "TEXT"), Column("sess", "TEXT"), Column("expire", "TEXT"),
      Column("expired", "TEXT")>>,
    <<Column("session_id", "TEXT"), Column("sess", "TEXT"), Column("expire", "TEXT")>>,
    <<Column("sid", "TEXT"), Column("data", "TEXT"), Column("expire", "TEXT")>>,
    <<Column("sid", "TEXT"), Column("sess", "TEXT"), Column("expiry", "TEXT")>>,
    <<Column("session_id", "TEXT"), Column("sess", "TEXT"),
      Column("expired", "INTEGER")>> }

\* what a column of the type can hold of an expiry: the ISO text the session
\* store writes, or, in a column declared INTEGER, a number of milliseconds
ExpiryValues(type) ==
  IF type = "INTEGER"
  THEN {Text("2025-12-10T00:00:00.000Z"), Integer("1765324800000")}
  ELSE {Text("2025-12-10T00:00:00.000Z")}

\* the rows a table of the layout can hold under its i-th key
RowChoices(columns, i) ==
  { [c \in { columns[j].name : j \in DOMAIN columns } |->
       IF c = columns[1].name THEN Text("session-" \o ToString(i))
       ELSE IF c = columns[2].name THEN Text("{\"id\":" \o ToString(i) \o "}")
       ELSE v]
    : v \in ExpiryValues(columns[3].type) }

\* the sets of rows a table of the layout can hold: one row a key at most
RowSets(columns) ==
  LET choices == UNION { RowChoices(columns, i) : i \in 1 .. MaxSessionRows }
      key == columns[1].name
  IN  { rows \in SUBSET choices :
          \A r1, r2 \in rows : r1[key] = r2[key] => r1 = r2 }

\* the indexes a table of the layout can carry
IndexChoices(columns) ==
  { [name |-> "idx_sessions_" \o c, tbl |-> "sessions", column |-> c]
    : c \in { columns[j].name : j \in DOMAIN columns } \cap {"expire", "expired"} }

DatabaseFile(columns, rows, indexes, leftover) ==
  [tables |-> IF leftover
              THEN ("sessions" :> [columns |-> columns, rows |-> rows])
                   @@ ("sessions_new" :> [columns |-> SessionsColumns, rows |-> {}])
              ELSE ("sessions" :> [columns |-> columns, rows |-> rows]),
   indexes |-> indexes]

\* the database files a start can find: no sessions table, or one of a layout
\* with rows and indexes, beside which a table sessions_new may lie
DatabaseFiles ==
  {EmptyDatabase} \cup
  UNION { { DatabaseFile(columns, rows, indexes, leftover)
            : rows \in RowSets(columns), indexes \in SUBSET IndexChoices(columns),
              leftover \in BOOLEAN }
          : columns \in ColumnLayouts }

(* ---------------------------- specifications ---------------------------- *)

Init ==
  /\ now = T0
  /\ admin_users = SeededAdmins
  /\ login_attempts = EmptyBag
  /\ sessions = [s \in {} |-> AnonSession]
  /\ cookie = NoSid
  /\ nextSid = 1
  /\ hits = [ip \in Ips |-> [count |-> 0, resetTime |-> 0]]
  /\ resp = NoResponse
  /\ issuedAt = [sid \in 1 .. (MaxSid + 1) |-> 0]
  /\ succeeded = {}
  /\ logouts = {}
  /\ db = setupSessionsTable(EmptyDatabase, 0).db
  /\ boot = Ready
  /\ pending = EmptyBag

\* the server not started yet, on a database file of any kind
MigrationInit ==
  /\ now = T0
  /\ admin_users = SeededAdmins
  /\ login_attempts = EmptyBag
  /\ sessions = [s \in {} |-> AnonSession]
  /\ cookie = NoSid
  /\ nextSid = 1
  /\ hits = [ip \in Ips |-> [count |-> 0, resetTime |-> 0]]
  /\ resp = NoResponse
  /\ issuedAt = [sid \in 1 .. (MaxSid + 1) |-> 0]
  /\ succeeded = {}
  /\ logouts = {}
  /\ db \in DatabaseFiles
  /\ boot = Stopped
  /\ pending = EmptyBag

LoginRequest ==
  \E c \in Credentials, ip \in Ips : Login(c[1], c[2], ip, FALSE, FALSE)

\* a login with valid credentials during which the session store fails
FailingLoginRequest ==
  \E ip \in Ips, fault \in {<<TRUE, FALSE>>, <<FALSE, TRUE>>} :
    Login("admin", "baymax", ip, fault[1], fault[2])

Next == LoginRequest \/ Maintenance \/ Restart \/ Tick

\* logins, maintenance and five-minute steps across midnight
Spec == Init /\ [][Next]_vars

SessionLogin == Login("admin", "baymax", "10.0.0.1", FALSE, FALSE)

AdminRequest == \E sid \in PresentableSids : AdminRoute(sid)

MeRequest == \E sid \in PresentableSids : Me(sid)

LogoutRequest == \E sid \in PresentableSids, destroyErr \in BOOLEAN : Logout(sid, destroyErr)

NextSession == SessionLogin \/ AdminRequest \/ MeRequest \/ LogoutRequest \/ HalfHour

\* one browser's sessions and replayed cookies, in half-hour steps
SessionSpec == Init /\ [][NextSession]_vars

\* the administrator's first login
AgeLogin == (\A a \in admin_users : a.last_login = <<>>) /\ SessionLogin

AgeHalfHour == now < T0 + MaxAgeHalfHours * HalfHourMs /\ Advance(HalfHourMs)

NextAge == AgeLogin \/ AdminRequest \/ AgeHalfHour

\* a session kept active, or left idle, for more than a day
AgeSpec == Init /\ [][NextAge]_vars

VerifyLogin ==
  \E username \in Usernames, password \in Passwords, ip \in Ips :
    Login(username, password, ip, FALSE, FALSE)

NextVerify == VerifyLogin \/ Restart

\* every username with every password, at one instant
VerifySpec == Init /\ [][NextVerify]_vars

LedgerLogin ==
  \E c \in {<<"admin", "baymax">>, <<"Admin", "wrong">>}, ip \in Ips :
    Login(c[1], c[2], ip, FALSE, FALSE)

NextLedger == LedgerLogin \/ Restart \/ Tick

\* logins for a username with an account and for one without, across midnight
LedgerSpec == Init /\ [][NextLedger]_vars

InsertFailingLoginRequest ==
  \E c \in {<<"admin", "baymax">>, <<"Admin", "wrong">>}, ip \in Ips :
    LoginInsertFailing(c[1], c[2], ip)

NextLedgerFault == LedgerLogin \/ InsertFailingLoginRequest \/ Restart \/ Tick

\* logins during some of which the ledger cannot be written
LedgerFaultSpec == Init /\ [][NextLedgerFault]_vars

LockLogin == \E ip \in Ips : Login("admin", "wrong", ip, FALSE, FALSE)

LockTick == now < T0 + MaxLockSteps * StepMs /\ Advance(StepMs)

NextLock == LockLogin \/ Restart \/ LockTick

\* refused logins for one account from before midnight until a lock's end
LockSpec == Init /\ [][NextLock]_vars

RaceLogin ==
  \E c \in {<<"admin", "baymax">>, <<"admin", "wrong">>}, ip \in Ips :
    BeginLogin(c[1], c[2], ip)

\* the clock of RaceSpec: from five minutes before midnight to midnight
RaceTick == now < DAY_MS /\ Advance(StepMs)

NextRace == RaceLogin \/ FinishLogin \/ Restart \/ RaceTick

\* concurrent logins for one account: each call may be overtaken by others
\* between its lock check and the end of its credential check
RaceSpec == Init /\ [][NextRace]_vars

NextMigration == StartServer \/ StopServer

\* starts and stops of the server on the database files of earlier releases
MigrationSpec == MigrationInit /\ [][NextMigration]_vars

LegacyLoginRequest == LegacyLogin("admin", "baymax")

NextLegacy == LegacyLoginRequest \/ SessionLogin \/ AdminRequest \/ MeRequest \/ HalfHour

\* sessions of the earlier release met by the present one
LegacySpec == Init /\ [][NextLegacy]_vars

NextIdentity == SessionLogin \/ MeRequest \/ AdminRequest \/ AccountRemoved \/ HalfHour

\* sessions whose account is deleted under them
IdentitySpec == Init /\ [][NextIdentity]_vars

NextFault == SessionLogin \/ FailingLoginRequest \/ HalfHour

\* logins during which the session store fails
FaultSpec == Init /\ [][NextFault]_vars

NextFailure ==
  \/ SessionLogin
  \/ FailingLoginRequest
  \/ MeRequest
  \/ AccountRemoved
  \/ HalfHour

\* every way a request with a session ends in an authentication failure: the
\* checks of requireAuth, the account of /me gone, the store failing in a login
FailureSpec == Init /\ [][NextFailure]_vars

(* ------------------------------ properties ------------------------------ *)

\* C1: a login call with both credentials given, made while at least
\* MAX_FAILED_ATTEMPTS failure records of its username lie inside the lockout
\* window, answers 429 and issues no session, the password being right or wrong
LockedAfterMaxFailures ==
  (/\ resp.op = "login"
   /\ resp.username # "" /\ resp.password # ""
   /\ resp.preFailures >= MAX_FAILED_ATTEMPTS)
  => resp.status = 429 /\ resp.issued = NoSid

\* the lockout refusing the right password: the failures were made after midnight
LockedOutWithRightPassword ==
  /\ resp.op = "login"
  /\ resp.password = "baymax"
  /\ resp.preFailures >= MAX_FAILED_ATTEMPTS
  /\ resp.status = 429
  /\ resp.message = MsgLockedPre

\* C2: isAccountLocked reports locked exactly when the failure records of the
\* username later than now - 15 minutes number MAX_FAILED_ATTEMPTS or more,
\* remainingAttempts being MAX_FAILED_ATTEMPTS minus their number when not locked
\* and 0 when locked
CheckLockCountsWindow ==
  \A u \in Usernames :
    LET status == isAccountLocked(login_attempts, u, now)
        count == TrueFailures(login_attempts, u, now)
    IN  /\ status.locked <=> count >= MAX_FAILED_ATTEMPTS
        /\ ~status.locked => status.remainingAttempts = MAX_FAILED_ATTEMPTS - count
        /\ status.locked => status.remainingAttempts = 0

\* a ledger on which isAccountLocked is right: five failures since midnight
CheckLockLocked ==
  /\ TrueFailures(login_attempts, "admin", now) >= MAX_FAILED_ATTEMPTS
  /\ isAccountLocked(login_attempts, "admin", now).locked

\* C3: from a successful login for a username until a failed login for it is
\* recorded, the ledger holds no failure record of the username and
\* isAccountLocked reports it unlocked with MAX_FAILED_ATTEMPTS attempts remaining
ClearedAfterSuccess ==
  \A u \in succeeded :
    /\ \A r \in DOMAIN login_attempts : ~(r.username = u /\ r.success = 0)
    /\ ~isAccountLocked(login_attempts, u, now).locked
    /\ isAccountLocked(login_attempts, u, now).remainingAttempts = MAX_FAILED_ATTEMPTS

\* a success that four failures inside the window preceded
SuccessAfterFourFailures ==
  /\ resp.op = "login"
  /\ resp.status = 200
  /\ resp.preFailures = MAX_FAILED_ATTEMPTS - 1
  /\ resp.username \in succeeded

\* C4: a request for a protected route that presents a session issued more than
\* SESSION_MAX_AGE_MS ago is not admitted to the handler and the session is
\* destroyed, however lately the session was active
MaxAgeEnforced ==
  (resp.op \in {"admin", "me"} /\ resp.age > SESSION_MAX_AGE_MS)
  => /\ ~resp.admitted
     /\ resp.status = 401
     /\ resp.presented \notin DOMAIN sessions

\* a session refused for its age although active within the idle timeout
ExpiredWhileActive ==
  /\ resp.op = "admin"
  /\ resp.age > SESSION_MAX_AGE_MS
  /\ resp.idle <= SESSION_IDLE_TIMEOUT_MS
  /\ resp.message = MsgExpired
  /\ resp.presented \notin DOMAIN sessions

\* C5: a request for a protected route that presents a session last active more
\* than SESSION_IDLE_TIMEOUT_MS ago is not admitted to the handler and the
\* session is destroyed, whatever the session's age
IdleTimeoutEnforced ==
  (resp.op \in {"admin", "me"} /\ resp.idle > SESSION_IDLE_TIMEOUT_MS)
  => /\ ~resp.admitted
     /\ resp.status = 401
     /\ resp.presented \notin DOMAIN sessions

\* a session within its lifetime refused for its idle gap
IdleWithinMaxAge ==
  /\ resp.op = "admin"
  /\ resp.age <= SESSION_MAX_AGE_MS
  /\ resp.idle > SESSION_IDLE_TIMEOUT_MS
  /\ resp.message = MsgIdle
  /\ resp.presented \notin DOMAIN sessions

VerifyExact ==
  /\ \A u \in Usernames, p \in Passwords :
       LET v == verifyCredentialsConstantTime(admin_users, u, p)
           match == { a \in admin_users :
                        a.username = u /\ bcryptCompare(p, a.password_hash) }
       IN  /\ v.valid <=> match # {}
           /\ v.valid => v.user \in { a.id : a \in match }
           /\ ~v.valid => v.user = 0
  /\ resp.issued # NoSid =>
       \E a \in admin_users :
         /\ a.username = resp.username
         /\ bcryptCompare(resp.password, a.password_hash)
         /\ resp.user = a.id
         /\ resp.issued \in DOMAIN sessions => sessions[resp.issued].userId = a.id

\* the administrator's password under a username of another case, refused
CaseVariantRefused ==
  /\ resp.op = "login"
  /\ resp.username = "Admin"
  /\ resp.password = "baymax"
  /\ resp.status = 401
  /\ resp.issued = NoSid

\* C9: verifyCredentialsConstantTime compares exactly one digest, the account's
\* when the username has an account and DUMMY_HASH when it has none, so that the
\* number of comparisons is the same with and without the account
OneComparison ==
  /\ \A u \in Usernames, p \in Passwords :
       LET account == findAdminByUsername(admin_users, u)
           with == verifyCredentialsConstantTime(admin_users, u, p)
           without == verifyCredentialsConstantTime(admin_users \ account, u, p)
       IN  /\ Len(with.compared) = 1
           /\ with.compared[1] \in
                IF account # {} THEN { a.password_hash : a \in account }
                ELSE {DUMMY_HASH}
           /\ Len(without.compared) = Len(with.compared)
           /\ without.compared[1] = DUMMY_HASH
  /\ (resp.op = "login" /\ resp.message \in {MsgWelcome, MsgInvalid, MsgLockedPost})
     => Len(resp.compared) = 1

\* a login for a username without an account, compared against DUMMY_HASH
ComparedWithDummy ==
  /\ resp.op = "login"
  /\ resp.username = "Admin"
  /\ resp.compared = <<DUMMY_HASH>>

\* C10: a login for the username of an account with a password that does not
\* match gets the response, and makes the ledger change, that the same call gets
\* and makes on the same ledger when the username has no account
SameAnswerWithoutAccount ==
  \A u \in { a.username : a \in admin_users }, p \in Passwords, ip \in Ips :
    LET with == loginRoute(admin_users, login_attempts, sessions, cookie, nextSid,
                           u, p, ip, now, FALSE, FALSE)
        without == loginRoute(admin_users \ findAdminByUsername(admin_users, u),
                              login_attempts, sessions, cookie, nextSid,
                              u, p, ip, now, FALSE, FALSE)
    IN  ~verifyCredentialsConstantTime(admin_users, u, p).valid
        => /\ with.resp.status = without.resp.status
           /\ with.resp.message = without.resp.message
           /\ with.resp.n = without.resp.n
           /\ with.resp.user = without.resp.user
           /\ with.ledger = without.ledger
           /\ with.store = without.store
           /\ with.cookie = without.cookie

\* a wrong password that completes the lockout
WrongPasswordLocks ==
  /\ resp.op = "login"
  /\ resp.password = "wrong"
  /\ resp.message = MsgLockedPost
  /\ isAccountLocked(login_attempts, resp.username, now).locked

\* C11: a successful login issues an identifier that the client did not present
\* and that no session had before, and the presented session is stored no more;
\* no step gives an account to an identifier that existed before the step
NoFixation ==
  /\ [](resp.op = "login" /\ resp.status = 200
        => /\ resp.issued # resp.presented
           /\ resp.issued \in DOMAIN sessions
           /\ sessions[resp.issued].userId # 0
           /\ resp.presented \notin DOMAIN sessions)
  /\ [][\A sid \in PresentableSids :
          (sid \in DOMAIN sessions' /\ sessions'[sid].userId # 0)
          => (sid \in DOMAIN sessions
              /\ sessions[sid].userId = sessions'[sid].userId)]_vars

\* a login by a browser that presented the cookie of a stored session
LoggedInOverSession ==
  /\ resp.op = "login"
  /\ resp.status = 200
  /\ resp.presented # NoSid
  /\ resp.issued # resp.presented
  /\ cookie = resp.issued

\* C12: a login answered with success has its session stored with account,
\* username, createdAt and lastActivity, and the browser holds that session's
\* cookie; a login that fails while the session is regenerated or saved is
\* answered 500, its new session is not stored and the browser's cookie is
\* cleared; after any login response the cookie the browser holds, if any, names
\* a stored session with an account
IssuedSessionPersisted ==
  resp.op = "login" =>
    /\ resp.status = 200 =>
         /\ cookie = resp.issued
         /\ resp.issued \in DOMAIN sessions
         /\ sessions[resp.issued] = [userId |-> resp.user, username |-> resp.username,
                                     createdAt |-> issuedAt[resp.issued],
                                     lastActivity |-> sessions[resp.issued].lastActivity]
         /\ sessions[resp.issued].lastActivity >= issuedAt[resp.issued]
         /\ issuedAt[resp.issued] > 0
    /\ resp.message = MsgSystem =>
         /\ resp.status = 500
         /\ resp.issued = NoSid
         /\ nextSid \notin DOMAIN sessions
         /\ cookie = NoSid
    /\ cookie # NoSid =>
         /\ cookie \in DOMAIN sessions
         /\ sessions[cookie].userId # 0

\* a login with the right password during which saving the session failed
LoginFailedInSave ==
  /\ resp.op = "login"
  /\ resp.message = MsgSystem
  /\ resp.presented # NoSid
  /\ resp.presented \notin DOMAIN sessions
  /\ cookie = NoSid

\* C13: a stored session with an account but without createdAt or lastActivity is
\* never given the missing fields: a step leaves it as it is or removes it; a
\* request that presents it is answered 401, is not admitted to the handler and
\* the session is destroyed
LegacySessionRejected ==
  /\ [](resp.message = MsgOutdated
        => /\ resp.status = 401
           /\ ~resp.admitted
           /\ resp.presented \notin DOMAIN sessions)
  /\ [][\A sid \in DOMAIN sessions :
          (/\ sessions[sid].userId # 0
           /\ sessions[sid].createdAt = 0 \/ sessions[sid].lastActivity = 0)
          => /\ sid \in DOMAIN sessions' => sessions'[sid] = sessions[sid]
             /\ (resp' # resp /\ resp'.op \in {"admin", "me"} /\ resp'.presented = sid)
                => /\ ~resp'.admitted
                   /\ resp'.message = MsgOutdated
                   /\ sid \notin DOMAIN sessions']_vars

\* a session of the earlier release presented and destroyed
LegacySessionDestroyed ==
  /\ resp.op \in {"admin", "me"}
  /\ resp.message = MsgOutdated
  /\ resp.presented # NoSid
  /\ resp.presented \notin DOMAIN sessions

\* C14: two requests for a protected route that requireAuth refuses get the same
\* status and the same body, whichever failure applies to each: no account in
\* the session, missing metadata, age beyond the maximum, idle beyond the timeout
ValidateFailuresAlike ==
  \A s1, s2 \in PresentableSids :
    LET o1 == requireAuth(LoadSession(sessions, s1), now)
        o2 == requireAuth(LoadSession(sessions, s2), now)
    IN  (o1 # "next" /\ o2 # "next")
        => requireAuthMessage(o1) = requireAuthMessage(o2)

\* a refusal whose body tells that the session had been idle
IdleKindDisclosed ==
  /\ resp.op \in {"admin", "me"}
  /\ resp.status = 401
  /\ resp.message = MsgIdle
  /\ resp.message # MsgAuthRequired

\* C15: when a request for /me presents a session that requireAuth lets through
\* and whose account id has no row, the answer is 401 without an identity, the
\* session is destroyed and the browser's cookie cleared; an answer 200 of /me
\* names an account that exists
UnresolvedIdentityRejected ==
  /\ [](resp.message = MsgSessionInvalid
        => /\ resp.status = 401
           /\ resp.user = 0
           /\ resp.presented \notin DOMAIN sessions
           /\ cookie # resp.presented)
  /\ [][(resp' # resp /\ resp'.op = "me")
        => /\ resp'.status = 200
              => \E a \in admin_users : a.id = resp'.user
           /\ \A sid \in DOMAIN sessions :
                (/\ resp'.presented = sid
                 /\ requireAuth(sessions[sid], now) = "next"
                 /\ \A a \in admin_users : a.id # sessions[sid].userId)
                => /\ resp'.status = 401
                   /\ resp'.message = MsgSessionInvalid
                   /\ resp'.user = 0
                   /\ sid \notin DOMAIN sessions'
                   /\ cookie = sid => cookie' = NoSid]_vars

\* /me refusing and destroying the session of a deleted account
OrphanSessionDestroyed ==
  /\ resp.op = "me"
  /\ resp.admitted
  /\ resp.message = MsgSessionInvalid
  /\ resp.presented \notin DOMAIN sessions
  /\ admin_users = {}

\* C16 as stated: a login call with a username and a password that reaches the
\* handler leaves the ledger with exactly one row more, the row of this call
\* (username as typed, origin, time, outcome), whatever the answer; a success
\* first deletes the username's failure rows
EveryLoginCallRecorded ==
  [][(resp' # resp /\ resp'.op = "login" /\ resp'.status # 400
      /\ resp'.message # MsgTooMany)
     => \E ip \in Ips :
          LET row == [username |-> resp'.username, ip_address |-> ip,
                      attempted_at |-> CURRENT_TIMESTAMP(now),
                      success |-> IF resp'.status = 200 THEN 1 ELSE 0]
              kept == IF resp'.status = 200
                      THEN clearFailedAttempts(login_attempts, resp'.username)
                      ELSE login_attempts
          IN  login_attempts' = kept (+) SetToBag({row})]_vars

\* C16, amended: a login call that the handler does not refuse as already locked
\* leaves the ledger with exactly one row more, the row of this call, whether or
\* not the username has an account; a call refused as already locked, or
\* refused by the rate limiter, leaves the ledger as it was
VerifiedLoginCallRecorded ==
  [][(resp' # resp /\ resp'.op = "login" /\ resp'.status # 400)
     => IF resp'.message \in {MsgTooMany, MsgLockedPre}
        THEN login_attempts' = login_attempts
        ELSE \E ip \in Ips :
               LET row == [username |-> resp'.username, ip_address |-> ip,
                           attempted_at |-> CURRENT_TIMESTAMP(now),
                           success |-> IF resp'.status = 200 THEN 1 ELSE 0]
                   kept == IF resp'.status = 200
                           THEN clearFailedAttempts(login_attempts, resp'.username)
                           ELSE login_attempts
               IN  login_attempts' = kept (+) SetToBag({row})]_vars

\* the ledger holding the row of a refused login for a username without an
\* account twice, and the row of the successful login just answered
EveryOutcomeInLedger ==
  /\ resp.op = "login"
  /\ resp.status = 200
  /\ \E r \in DOMAIN login_attempts :
       /\ r.username = resp.username
       /\ r.success = 1
       /\ r.attempted_at = CURRENT_TIMESTAMP(now)
  /\ \E r \in DOMAIN login_attempts :
       /\ r.username = "Admin"
       /\ r.success = 0
       /\ login_attempts[r] = 2

\* C17 as stated: whether or not the ledger can be written, a login call with
\* valid credentials that is not refused as locked or limited answers 200 and
\* issues a stored session, and a call with invalid credentials answers
\* InvalidCredentials (401) or AccountLocked (429), never a server error
OutcomeUnaffectedByLedger ==
  [][(resp' # resp /\ resp'.op = "login" /\ resp'.status # 400)
     => IF /\ \E a \in admin_users :
                /\ a.username = resp'.username
                /\ bcryptCompare(resp'.password, a.password_hash)
           /\ resp'.status # 429
        THEN /\ resp'.status = 200
             /\ resp'.issued \in DOMAIN sessions'
             /\ cookie' = resp'.issued
        ELSE resp'.status \in {401, 429}]_vars

\* valid credentials answered with a server error and without a session, the
\* ledger holding no record of the call
ValidLoginLostToLedger ==
  /\ resp.op = "login"
  /\ resp.username = "admin"
  /\ resp.password = "baymax"
  /\ resp.status = 500
  /\ resp.message = MsgSystem
  /\ resp.issued = NoSid
  /\ cookie = NoSid
  /\ login_attempts = EmptyBag

MigrationAllOrNothing ==
  /\ [](boot.state = "ready"
        => /\ "sessions" \in DOMAIN db.tables
           /\ ~ /\ "expired" \in ColumnNames(db.tables["sessions"])
                /\ "expire" \notin ColumnNames(db.tables["sessions"]))
  /\ [][(/\ boot.state = "stopped" /\ boot' # boot
         /\ "sessions" \in DOMAIN db.tables
         /\ "expired" \in ColumnNames(db.tables["sessions"])
         /\ "expire" \notin ColumnNames(db.tables["sessions"]))
        => \/ /\ boot'.state = "ready"
              /\ ColumnNames(db'.tables["sessions"]) = {"sid", "sess", "expire"}
              /\ Cardinality(db'.tables["sessions"].rows)
                   = Cardinality(db.tables["sessions"].rows)
              /\ "sessions_new" \notin DOMAIN db'.tables
              /\ IndexNames(db') = {"idx_sessions_expire"}
           \/ /\ boot'.state = "failed"
              /\ boot'.error # NoError
              /\ db' = db]_vars

\* a start that failed in the middle of the migration, the legacy table, its
\* rows and its index being in the file as before
MigrationAbortedIntact ==
  /\ boot.state = "failed"
  /\ boot.error = DiskError
  /\ DOMAIN db.tables = {"sessions"}
  /\ ColumnNames(db.tables["sessions"]) = {"sid", "sess", "expired"}
  /\ Cardinality(db.tables["sessions"].rows) = MaxSessionRows
  /\ IndexNames(db) = {"idx_sessions_expired"}

\* C20: a start on a sessions table that lacks the column sid, the column sess,
\* or both expire and expired, ends failed with an error that names the columns
\* missing, the table's columns and rows being as they were
MalformedTableRejected ==
  [][(/\ boot.state = "stopped" /\ boot' # boot
      /\ "sessions" \in DOMAIN db.tables
      /\ \/ {"sid", "sess"} \ ColumnNames(db.tables["sessions"]) # {}
         \/ {"expire", "expired"} \cap ColumnNames(db.tables["sessions"]) = {})
     => /\ boot'.state = "failed"
        /\ {"sid", "sess"} \ ColumnNames(db.tables["sessions"]) \subseteq boot'.error.names
        /\ {"expire", "expired"} \cap ColumnNames(db.tables["sessions"]) = {}
             => {"expire", "expired"} \cap boot'.error.names # {}
        /\ "sessions" \in DOMAIN db'.tables
        /\ db'.tables["sessions"] = db.tables["sessions"]]_vars

\* the server ready on a sessions table without the column sid, holding rows
MalformedTableAccepted ==
  /\ boot.state = "ready"
  /\ "sid" \notin ColumnNames(db.tables["sessions"])
  /\ "session_id" \in ColumnNames(db.tables["sessions"])
  /\ db.tables["sessions"].rows # {}
  /\ "idx_sessions_expire" \in IndexNames(db)

ActiveSessionKeptAlive ==
  [][\A sid \in DOMAIN sessions :
       (/\ resp' # resp
        /\ resp'.op \in {"admin", "me"}
        /\ resp'.presented = sid
        /\ sessions[sid].userId # 0
        /\ sessions[sid].createdAt # 0
        /\ sessions[sid].lastActivity # 0
        /\ now - sessions[sid].lastActivity <= SESSION_IDLE_TIMEOUT_MS
        /\ now - sessions[sid].createdAt <= SESSION_MAX_AGE_MS)
       => /\ resp'.admitted
          /\ resp'.status = 200
          /\ sid \in DOMAIN sessions'
          /\ sessions'[sid].lastActivity = now
          /\ sessions'[sid].createdAt = sessions[sid].createdAt
          /\ sessions'[sid].userId = sessions[sid].userId
          /\ sessions'[sid].username = sessions[sid].username]_vars

\* a session admitted on the last moment of its day, a request having come
\* every thirty minutes
AdmittedAtMaxAge ==
  /\ resp.op = "admin"
  /\ resp.admitted
  /\ resp.age = SESSION_MAX_AGE_MS
  /\ resp.idle = SESSION_IDLE_TIMEOUT_MS
  /\ sessions[resp.presented].lastActivity = now

\* C23: when isAccountLocked reports a username locked, lockoutEndsAt is the time
\* of the oldest failure record of the username later than now - 15 minutes,
\* plus LOCKOUT_DURATION_MS, and lies after now and at most LOCKOUT_DURATION_MS
\* after it; when it reports the username not locked, lockoutEndsAt is null
LockEndsWithOldestFailure ==
  \A u \in Usernames :
    LET status == isAccountLocked(login_attempts, u, now)
        inWindow == { r \in DOMAIN login_attempts :
                        /\ r.username = u
                        /\ r.success = 0
                        /\ DateParse(r.attempted_at) > now - LOCKOUT_DURATION_MS }
    IN  /\ status.locked
             => /\ inWindow # {}
                /\ \E r \in inWindow :
                     /\ \A q \in inWindow :
                          DateParse(r.attempted_at) <= DateParse(q.attempted_at)
                     /\ status.lockoutEndsAt
                          = DateParse(r.attempted_at) + LOCKOUT_DURATION_MS
                /\ now < status.lockoutEndsAt
                /\ status.lockoutEndsAt <= now + LOCKOUT_DURATION_MS
        /\ ~status.locked => status.lockoutEndsAt = 0

\* a lock reported to end fifteen minutes after midnight although the oldest
\* failure of the window was recorded before midnight
LockEndsLate ==
  LET status == isAccountLocked(login_attempts, "admin", now)
  IN  /\ status.locked
      /\ status.lockoutEndsAt = DAY_MS + LOCKOUT_DURATION_MS
      /\ \E r \in DOMAIN login_attempts :
           /\ r.username = "admin"
           /\ r.success = 0
           /\ DateParse(r.attempted_at) = T0
           /\ T0 > now - LOCKOUT_DURATION_MS

\* C24: a lock's end is never postponed.  While isAccountLocked reports a
\* username locked the time is before lockoutEndsAt; no step from locked to
\* locked, a login call for the username or another, changes lockoutEndsAt; and
\* a username not locked becomes locked only in a step that records a failure
\* for it
LockEndNotPostponed ==
  /\ [](\A u \in Usernames :
          isAccountLocked(login_attempts, u, now).locked
          => now < isAccountLocked(login_attempts, u, now).lockoutEndsAt)
  /\ [][\A u \in Usernames :
          LET before == isAccountLocked(login_attempts, u, now)
              after == isAccountLocked(login_attempts', u, now')
          IN  /\ (before.locked /\ after.locked)
                   => after.lockoutEndsAt = before.lockoutEndsAt
              /\ (~before.locked /\ after.locked)
                   => \E r \in DOMAIN login_attempts' :
                        /\ r.username = u
                        /\ r.success = 0
                        /\ r.attempted_at = CURRENT_TIMESTAMP(now)
                        /\ CopiesIn(r, login_attempts')
                             = CopiesIn(r, login_attempts) + 1]_vars

\* the lock's end reached after a login was refused as locked: the username not
\* locked, its five failures of the lock still in the ledger
UnlockedAtLockEnd ==
  /\ now = DAY_MS + LOCKOUT_DURATION_MS
  /\ resp.op = "login"
  /\ resp.username = "admin"
  /\ resp.message = MsgLockedPre
  /\ ~isAccountLocked(login_attempts, "admin", now).locked
  /\ BagCardinality(Where(login_attempts,
       { r \in DOMAIN login_attempts :
           r.username = "admin" /\ r.success = 0 /\ r.attempted_at[1] = 1 }))
       >= MAX_FAILED_ATTEMPTS

\* C25: a login call with a username and a password that the limiter lets
\* through and whose username isAccountLocked reports locked is answered 429
\* without any digest compared, the accounts and the ledger left as they were;
\* hence every call that compared a digest was found not locked first
LockCheckedBeforeVerify ==
  /\ [](resp.message = MsgLockedPre => resp.status = 429 /\ resp.compared = <<>>)
  /\ [][(/\ resp' # resp
         /\ resp'.op = "login"
         /\ resp'.status # 400
         /\ resp'.message # MsgTooMany
         /\ isAccountLocked(login_attempts, resp'.username, now).locked)
        => /\ resp'.status = 429
           /\ resp'.message = MsgLockedPre
           /\ resp'.compared = <<>>
           /\ resp'.user = 0
           /\ admin_users' = admin_users
           /\ login_attempts' = login_attempts]_vars

\* the right password refused for the lock, no digest having been compared
LockedCallNotCompared ==
  /\ resp.op = "login"
  /\ resp.status = 429
  /\ resp.message = MsgLockedPre
  /\ bcryptCompare(resp.password, bcryptHash("baymax"))
  /\ resp.compared = <<>>
  /\ isAccountLocked(login_attempts, resp.username, now).locked

\* failure rows of the username recorded on the day of t and inside the
\* window that ends at t
FailuresToday(ledger, username, t) ==
  BagCardinality(Where(ledger,
    { r \in DOMAIN ledger :
        /\ r.username = username
        /\ r.success = 0
        /\ DateParse(r.attempted_at) >= (t \div DAY_MS) * DAY_MS
        /\ DateParse(r.attempted_at) > t - LOCKOUT_DURATION_MS }))

\* C26: in every interleaving of concurrent login calls for one username, the
\* failure records of the username inside one lockout window number at most
\* MAX_FAILED_ATTEMPTS + 1
FailuresExceedByAtMostOne ==
  \A u \in Usernames :
    TrueFailures(login_attempts, u, now) <= MAX_FAILED_ATTEMPTS + 1

\* seven failures of one account recorded after midnight, where the lock check
\* counts every one of them, none of the calls having been answered locked
\* before its credential check
FailuresExceedByTwo ==
  /\ now >= DAY_MS
  /\ FailuresToday(login_attempts, "admin", now) >= MAX_FAILED_ATTEMPTS + 2
  /\ resp.message = MsgLockedPost

\* C27: a purge of the ledger deletes only records older than the 24-hour
\* retention window, hence no record inside the lockout window, and for every
\* username isAccountLocked answers the same before and after the purge
PurgeDeletesOnlyExpired ==
  [][(/\ login_attempts' = cleanupOldLoginAttempts(login_attempts, now)
      /\ now' = now
      /\ resp' = resp)
     => /\ \A r \in DOMAIN login_attempts :
             CopiesIn(r, login_attempts') < CopiesIn(r, login_attempts)
               => DateParse(r.attempted_at) < now - RETENTION_MS
        /\ \A r \in DOMAIN login_attempts :
             DateParse(r.attempted_at) > now - LOCKOUT_DURATION_MS
               => CopiesIn(r, login_attempts') = CopiesIn(r, login_attempts)
        /\ \A u \in Usernames :
             isAccountLocked(login_attempts', u, now)
               = isAccountLocked(login_attempts, u, now)]_vars

\* the last call was refused for a wrong password less than fifteen minutes
\* ago and no call succeeded since, yet the ledger holds no failure of the
\* username: a purge deleted it
PurgedInsideWindow ==
  /\ resp.op = "login"
  /\ resp.status = 401
  /\ resp.message = MsgInvalid
  /\ now <= T0 + MaxSteps * StepMs
  /\ MaxSteps * StepMs < LOCKOUT_DURATION_MS
  /\ TrueFailures(login_attempts, resp.username, now) = 0

\* the last response is an authentication failure of requireAuth, of the
\* account lookup of /me or of the session issuance of a login
AuthenticationFailure ==
  \/ resp.op \in {"me", "admin"} /\ resp.status = 401
  \/ resp.op = "login" /\ resp.status = 500 /\ resp.message = MsgSystem

\* C28: after every authentication failure of validate, identity resolution
\* or session issuance, the case of a session without account id included, the
\* session presented with the request is no longer in the store
SessionDestroyedOnFailure ==
  AuthenticationFailure => resp.presented \notin DOMAIN sessions

\* a login with the right password answered 500 while the session presented
\* with it is still in the store, an authenticated session of the account
PresentedSessionSurvives ==
  /\ resp.op = "login"
  /\ resp.status = 500
  /\ resp.presented \in DOMAIN sessions
  /\ sessions[resp.presented].userId # 0
  /\ cookie = NoSid

\* C29: in every interleaving of concurrent login calls for one username, a
\* call answered while MAX_FAILED_ATTEMPTS or more failure records of the
\* username lie inside the lockout window neither responds success nor issues
\* a session nor removes any of those records
NoSuccessWhileLocked ==
  [][\A u \in Usernames :
       (/\ TrueFailures(login_attempts, u, now) >= MAX_FAILED_ATTEMPTS
        /\ resp' # resp
        /\ resp'.op = "login"
        /\ resp'.username = u)
       => /\ resp'.status # 200
          /\ resp'.issued = NoSid
          /\ TrueFailures(login_attempts', u, now)
               >= TrueFailures(login_attempts, u, now)]_vars

\* a login answered 200 with a session, after midnight, at a moment when five
\* or more failures of its username lay inside the window, all of them
\* cleared by it
SucceededWhileLocked ==
  /\ resp.op = "login"
  /\ resp.status = 200
  /\ resp.issued # NoSid
  /\ resp.preFailures >= MAX_FAILED_ATTEMPTS
  /\ now >= DAY_MS
  /\ TrueFailures(login_attempts, resp.username, now) = 0

\* C30: a login call that passes the credential check but is answered 500
\* because the session could not be regenerated or saved leaves the ledger
\* and the accounts as they were, and last_login changes only in a login call
\* answered 200
IssuanceFailureChangesNothing ==
  /\ [][(/\ now' = now
          /\ resp'.op = "login"
          /\ resp'.status = 500
          /\ resp'.message = MsgSystem)
         => /\ login_attempts' = login_attempts
            /\ admin_users' = admin_users]_vars
  /\ [][(\E a \in admin_users : \E b \in admin_users' :
            a.id = b.id /\ a.last_login # b.last_login)
         => resp'.op = "login" /\ resp'.status = 200]_vars

\* no session was ever issued and the last login was answered 500, yet the
\* ledger holds a success record and the account a last_login
RecordedWithoutSession ==
  /\ resp.op = "login"
  /\ resp.status = 500
  /\ nextSid = 1
  /\ \A sid \in DOMAIN issuedAt : issuedAt[sid] = 0
  /\ \E r \in DOMAIN login_attempts : r.username = "admin" /\ r.success = 1
  /\ \E a \in admin_users : a.username = "admin" /\ a.last_login # <<>>

====
